---- MODULE Spec2Model ----
(***************************************************************************)
(* A model of SolvingMicroDSOPs.py (camriddell/SolvingMicroDSOPs): the     *)
(* backward-induction consumption solve (section 11 of the notebook), the  *)
(* portfolio-choice engine GothicMC with its share solver (section 12) and *)
(* the two portfolio solves built on it.                                    *)
(*                                                                         *)
(* Numbers.  Money amounts (a, theta, c, m) are integers in hundredths, so *)
(* that R = 1.02 is the exact ratio R_num / R_den.  Every value the code   *)
(* computes in floating point (consumption, cash-on-hand, marginal values, *)
(* shares) is an exact rational [num, den] with den >= 0, where den = 0    *)
(* encodes the IEEE specials: 0/0 is not-a-number, 1/0 and -1/0 are the    *)
(* infinities.  Rounding is not modelled.                                  *)
(*                                                                         *)
(* The classes Gothic, Utility and the discrete approximations are         *)
(* imported from Code.Python: what their calls return is an input of the   *)
(* model, drawn from the sets cOut (implied consumption) and fOut          *)
(* (expected marginal value of the share).                                 *)
(***************************************************************************)
EXTENDS Integers, Sequences, FiniteSets, TLC

\* ------------------------------------------------------------ bounds
MaxT == 3
MaxGrid == 2
MaxShareGrid == 3
MaxLongT == 10

\* The values the inputs are drawn from (hundredths).
AVals == {-100, 0, 100, 200}
CVals == {-100, 100, 200}
ThetaMinVals == {-102, 0, 102}

\* ------------------------------------------------- program constants
R_num == 102
R_den == 100
PermGroFac == 1
rho_port == 6

\* ------------------------------------------------------- arithmetic
Sgn(n) == IF n > 0 THEN 1 ELSE IF n < 0 THEN -1 ELSE 0

Abs(n) == IF n < 0 THEN -n ELSE n

RECURSIVE GCD(_, _)
GCD(x, y) == IF y = 0 THEN x ELSE GCD(y, x % y)

\* The rational n/d in lowest terms; d = 0 gives an IEEE special.
Norm(n, d) ==
    IF d = 0 THEN [num |-> Sgn(n), den |-> 0]
    ELSE LET g == GCD(Abs(n), d) IN [num |-> n \div g, den |-> d \div g]

RInt(n) == [num |-> n, den |-> 1]

NaN == [num |-> 0, den |-> 0]

PosInf == [num |-> 1, den |-> 0]

\* The values the expected marginal value of the share takes at a != 0.
FVals == {RInt(-1), RInt(0), RInt(1), NaN}

\* The values the expectation inside Va_Tminus1 / Va_t takes.
VaVals == {RInt(-1), RInt(0), RInt(1), [num |-> 1, den |-> 64]}

IsNaN(x) == x.num = 0 /\ x.den = 0

IsFinite(x) == x.den > 0

RNeg(x) == [num |-> -x.num, den |-> x.den]

RAdd(x, y) ==
    IF x.den = 0 /\ y.den = 0
    THEN (IF x.num = y.num THEN x ELSE NaN)
    ELSE Norm(x.num * y.den + y.num * x.den, x.den * y.den)

RSub(x, y) == RAdd(x, RNeg(y))

RMul(x, y) == Norm(x.num * y.num, x.den * y.den)

\* IEEE division: x/0 is an infinity for x # 0, 0/0 and inf/inf are NaN.
RDiv(x, y) ==
    IF IsNaN(x) \/ IsNaN(y) THEN NaN
    ELSE IF y.den = 0 THEN (IF x.den = 0 THEN NaN ELSE RInt(0))
    ELSE IF y.num = 0 THEN Norm(x.num, 0)
    ELSE IF x.den = 0 THEN Norm(x.num * Sgn(y.num), 0)
    ELSE Norm(x.num * y.den * Sgn(y.num), x.den * Abs(y.num))

\* Comparisons are false as soon as one side is NaN.
RLt(x, y) ==
    /\ ~IsNaN(x)
    /\ ~IsNaN(y)
    /\ IF x.den = 0 /\ y.den = 0 THEN x.num < y.num
       ELSE x.num * y.den < y.num * x.den

RLe(x, y) == ~IsNaN(x) /\ ~IsNaN(y) /\ ~RLt(y, x)

\* numpy.minimum: NaN as soon as one argument is NaN.
np_minimum(x, y) ==
    IF IsNaN(x) \/ IsNaN(y) THEN NaN ELSE IF RLt(y, x) THEN y ELSE x

StrictlyIncreasing(s) ==
    \A k \in 1..(Len(s) - 1) : s[k] < s[k + 1]

RStrictlyIncreasing(s) ==
    \A k \in 1..(Len(s) - 1) : RLt(s[k], s[k + 1])

SeqRange(s) == {s[k] : k \in 1..Len(s)}

\* The asset grids: strictly increasing, between one and MaxGrid points.
Grids ==
    {g \in UNION {[1..n -> AVals] : n \in 1..MaxGrid} : StrictlyIncreasing(g)}

\* ------------------------------------------------------------- state
VARIABLES
    pc,               \* the place of the notebook's execution
    run,              \* the solve in progress: 1 consumption, 2 and 3 portfolio
    T,                \* the horizon (line 887)
    theta_X_min,      \* min(theta.X), the lowest node of the income shock
    constrained,      \* the borrowing-constraint mode (line 897)
    aVec_eee,         \* the asset grid of the consumption solve (line 888)
    cOut,             \* the values the engine's implied consumption takes
    fOut,             \* the values the marginal value of share takes
    vaOut,            \* the values the expectation of Va_Tminus1 / Va_t takes
    t,                \* the period being solved
    i,                \* the index of the next grid point of the period's sweep
    cVec, mVec,       \* the knot lists of the period being solved
    cFunc,            \* the global the fitted consumption policy is bound to
    cFunc_life,       \* the consumption solve's dictionary, period -> policy
    c_next,           \* the policy argument of the latest engine call
    cRaw,             \* what the engine returned at each grid point so far
    solved,           \* the periods stored by the solve in progress, in order
    share_grid_size,  \* GothicMC.share_grid_size
    self_varsigma_grids, \* GothicMC.varsigma_grids, the array the engine holds
    aVec_eee_big,     \* the asset grid of the portfolio solve
    cVec_port, mVec_port, varsigmaVec_port,
    varsigmaFunc,
    mGridPort_life, cGridPort_life, varsigmaGrid_life,
    cFuncPort_life, varsigma_life,
    list_id,          \* the identity of the list objects the names
                      \* cVec_port, mVec_port, varsigmaVec_port are bound to
    grid_ids,         \* period -> identity of the lists stored for the period
    vaRaw,            \* the expectation Va took at each grid point so far
    aVec_fine,        \* the asset grid of the T-1 solutions of Figure 18
    cVec_const, mVec_const,   \* the knots built with constrained = True
    cVec_uconst, mVec_uconst, \* the knots built with constrained = False
    firstPort,        \* the first portfolio solve's grid and dictionaries, as
                      \* they were when the grid was re-assigned after it
    call              \* the latest direct call of the share solver

inputVars == <<T, theta_X_min, constrained, aVec_eee, cOut, fOut, vaOut,
               share_grid_size, aVec_eee_big>>

consVars == <<cVec, mVec, cFunc_life>>

portVars == <<cVec_port, mVec_port, varsigmaVec_port, varsigmaFunc,
              mGridPort_life, cGridPort_life, varsigmaGrid_life,
              cFuncPort_life, varsigma_life, list_id, grid_ids, vaRaw,
              self_varsigma_grids>>

fig18Vars == <<aVec_fine, cVec_const, mVec_const, cVec_uconst, mVec_uconst>>

vars == <<pc, run, t, i, cFunc, c_next, cRaw, solved, call, firstPort,
          fig18Vars, inputVars, consVars, portVars>>

\* ---------------------------------------------------------- policies
\* An InterpolatedUnivariateSpline(x, y, k=1): the knots it was fitted through.
\* run and period tell the objects of different fits apart (object identity).
Spline(r, p, x, y) == [run |-> r, period |-> p, x |-> x, y |-> y]

\* The absent next-period policy of the terminal rule (C_Tminus1 takes none).
NoPolicy == Spline(0, 0, <<>>, <<>>)

\* A name that is not bound yet.
Unbound == Spline(-1, 0, <<>>, <<>>)

EmptyDict == [p \in {} |-> NoPolicy]

\* A store that lands on the key above the one meant.
DictSet_KeyAbove(d, k, v) ==
    [p \in (DOMAIN d) \cup {k + 1} |-> IF p = k + 1 THEN v ELSE d[p]]

\* d[k] = v on a dictionary.
DictSet(d, k, v) == [p \in (DOMAIN d) \cup {k} |-> IF p = k THEN v ELSE d[p]]

\* {k: v}
DictOf(k, v) == [p \in {k} |-> v]

\* ------------------------------------------- the consumption solve
\* self_a_min = -min(theta.X) * PermGroFac[0] / R
self_a_min == -((theta_X_min * PermGroFac * R_den) \div R_num)

\* The boundary knot put at 0 whenever the solve is constrained.
FirstKnotM_ZeroWheneverConstrained(constr, amin) == IF constr THEN 0 ELSE amin

\* mVec = [self_a_min]; if constrained and self_a_min < 0: mVec = [0.0]
FirstKnotM(constr, amin) == IF constr /\ amin < 0 THEN 0 ELSE amin

\* np.maximum in place of np.minimum.
ClipC_Maximum(constr, c, m) ==
    IF ~constr \/ IsNaN(c) \/ IsNaN(m) THEN c ELSE IF RLt(c, m) THEN m ELSE c

\* The clip left out.
ClipC_Unclipped(constr, c, m) == c

\* if constrained: c = np.minimum(c, m)
ClipC(constr, c, m) == IF constr THEN np_minimum(c, m) ELSE c

\* Cash-on-hand without the assets.
CashOnHand_WithoutAssets(c, a) == c

\* m = c + a
CashOnHand(c, a) == RAdd(c, RInt(a))

\* The loop stopping before period 0, as range(T - 2, 0, -1) does.
ConsLoopHasNext_StopsAtOne(tt) == tt - 1 > 0

\* The loop running one period too far, as range(T - 2, -2, -1) does.
ConsLoopHasNext_OneTooFar(tt) == tt - 1 > -2

\* for t in range(T - 2, -1, -1): whether a period follows period tt
ConsLoopHasNext(tt) == tt - 1 > -1

\* cVec = [0.0]; mVec = [self_a_min]; if constrained and ...: mVec = [0.0]
ConsLastInit ==
    /\ pc = "cons"
    /\ pc' = "cons_last"
    /\ run' = 1
    /\ t' = T - 1
    /\ i' = 1
    /\ cVec' = <<RInt(0)>>
    /\ mVec' = <<RInt(FirstKnotM(constrained, self_a_min))>>
    /\ cRaw' = <<>>
    /\ solved' = <<>>
    /\ cFunc_life' = EmptyDict
    /\ UNCHANGED <<cFunc, c_next, call, firstPort, fig18Vars, inputVars,
                   portVars>>

\* One pass of the body of "for a in aVec_eee" with c = gothic.C_Tminus1(a).
ConsLastGrid ==
    /\ pc = "cons_last"
    /\ i <= Len(aVec_eee)
    /\ \E c0 \in cOut :
         LET a == aVec_eee[i]
             m == CashOnHand(RInt(c0), a)
             c == ClipC(constrained, RInt(c0), m)
         IN /\ cVec' = Append(cVec, c)
            /\ mVec' = Append(mVec, m)
            /\ cRaw' = Append(cRaw, RInt(c0))
    /\ c_next' = NoPolicy
    /\ i' = i + 1
    /\ UNCHANGED <<pc, run, t, cFunc, cFunc_life, solved, call, firstPort,
                   fig18Vars, inputVars, portVars>>

\* cFunc = InterpolatedUnivariateSpline(mVec, cVec, k=1)
\* cFunc_life = {T - 1: cFunc}
ConsLastFit ==
    /\ pc = "cons_last"
    /\ i > Len(aVec_eee)
    /\ cFunc' = Spline(run, T - 1, mVec, cVec)
    /\ cFunc_life' = DictOf(T - 1, cFunc')
    /\ solved' = Append(solved, T - 1)
    /\ pc' = "cons_loop"
    /\ UNCHANGED <<run, t, i, cVec, mVec, c_next, cRaw, call, firstPort,
                   fig18Vars, inputVars, portVars>>

\* The head of "for t in range(T - 2, -1, -1)" taking the next period.
ConsLoopInit ==
    /\ pc = "cons_loop"
    /\ ConsLoopHasNext(t)
    /\ t' = t - 1
    /\ i' = 1
    /\ cVec' = <<RInt(0)>>
    /\ mVec' = <<RInt(FirstKnotM(constrained, self_a_min))>>
    /\ cRaw' = <<>>
    /\ pc' = "cons_sweep"
    /\ UNCHANGED <<run, cFunc, cFunc_life, c_next, solved, call, firstPort,
                   fig18Vars, inputVars, portVars>>

\* One pass of the body of "for a in aVec_eee" with c = gothic.C_t(a, cFunc).
ConsLoopGrid ==
    /\ pc = "cons_sweep"
    /\ i <= Len(aVec_eee)
    /\ \E c0 \in cOut :
         LET a == aVec_eee[i]
             m == CashOnHand(RInt(c0), a)
             c == ClipC(constrained, RInt(c0), m)
         IN /\ cVec' = Append(cVec, c)
            /\ mVec' = Append(mVec, m)
            /\ cRaw' = Append(cRaw, RInt(c0))
    /\ c_next' = cFunc
    /\ i' = i + 1
    /\ UNCHANGED <<pc, run, t, cFunc, cFunc_life, solved, call, firstPort,
                   fig18Vars, inputVars, portVars>>

\* The fit stored without rebinding cFunc: the next period's sweep is handed
\* the policy of an older period.
ConsLoopFit_KeepsOldPolicy ==
    /\ pc = "cons_sweep"
    /\ i > Len(aVec_eee)
    /\ cFunc_life' = DictSet(cFunc_life, t, Spline(run, t, mVec, cVec))
    /\ solved' = Append(solved, t)
    /\ pc' = "cons_loop"
    /\ UNCHANGED <<run, t, i, cVec, mVec, cFunc, c_next, cRaw, call,
                   firstPort, fig18Vars, inputVars, portVars>>

\* cFunc = InterpolatedUnivariateSpline(mVec, cVec, k=1); cFunc_life[t] = cFunc
ConsLoopFit ==
    /\ pc = "cons_sweep"
    /\ i > Len(aVec_eee)
    /\ cFunc' = Spline(run, t, mVec, cVec)
    /\ cFunc_life' = DictSet(cFunc_life, t, cFunc')
    /\ solved' = Append(solved, t)
    /\ pc' = "cons_loop"
    /\ UNCHANGED <<run, t, i, cVec, mVec, c_next, cRaw, call, firstPort,
                   fig18Vars, inputVars, portVars>>

\* The range of the loop is exhausted.
ConsLoopExit ==
    /\ pc = "cons_loop"
    /\ ~ConsLoopHasNext(t)
    /\ pc' = "cons_done"
    /\ UNCHANGED <<run, t, i, cFunc, c_next, cRaw, solved, call, firstPort,
                   fig18Vars, inputVars, consVars, portVars>>

\* Figure 19: for t in range(T - 1, T - 10, -1): cFunc = cFunc_life[t].
\* A missing key ends the cell with a KeyError, cFunc left at the last period
\* that was found.
Figure19 ==
    /\ pc = "cons_done"
    /\ LET found == {p \in (T - 9)..(T - 1) :
                       \A q \in p..(T - 1) : q \in DOMAIN cFunc_life}
       IN /\ cFunc' = IF found = {} THEN cFunc
                      ELSE cFunc_life[CHOOSE p \in found :
                                        \A q \in found : p <= q]
          /\ t' = IF (T - 9) \in found THEN T - 9
                  ELSE IF found = {} THEN T - 1
                  ELSE (CHOOSE p \in found : \A q \in found : p <= q) - 1
          /\ pc' = IF (T - 9) \in found THEN "fig19" ELSE "fig19_KeyError"
    /\ UNCHANGED <<run, i, c_next, cRaw, solved, call, firstPort, fig18Vars,
                   inputVars, consVars, portVars>>

\* gothic.C_Tminus1(a) or gothic.C_t(a, cFunc) raises at a grid point: the
\* exception leaves the loops and ends the solve.
ConsGridRaises ==
    /\ pc \in {"cons_last", "cons_sweep"}
    /\ i <= Len(aVec_eee)
    /\ c_next' = IF pc = "cons_last" THEN NoPolicy ELSE cFunc
    /\ pc' = "cons_Error"
    /\ UNCHANGED <<run, t, i, cFunc, cRaw, solved, call, firstPort,
                   fig18Vars, inputVars, consVars, portVars>>

NextCons ==
    \/ ConsLastInit
    \/ ConsLastGrid
    \/ ConsLastFit
    \/ ConsLoopInit
    \/ ConsLoopGrid
    \/ ConsLoopFit
    \/ ConsLoopExit
    \/ Figure19

\* ------------------------------------------------------ GothicMC
\* self.varsigma_grids = np.linspace(0.0, 1.0, self.share_grid_size)
varsigma_grids(n) ==
    [j \in 1..n |-> IF n = 1 THEN RInt(0) ELSE Norm(j - 1, n - 1)]

\* The test "if a != 0.0" left out: the expectation is taken at a = 0 too.
Vsigma_Tminus1_NoZeroTest(a, e) == e

\* Vsigma_Tminus1(a, varsigma): the expectation when a != 0.0, else np.inf.
\* e is the value of beta * a / Gamma * Distribution.E(Vshare_func).
Vsigma_Tminus1(a, e) == IF a # 0 THEN e ELSE PosInf

\* The test "a > 0" in place of "a != 0.0": the sentinel below zero too.
Vsigma_t_SentinelBelowZero(a, c_prime, e) == IF a > 0 THEN e ELSE PosInf

\* Vsigma_t(a, varsigma, c_prime): as Vsigma_Tminus1, through c_prime.
Vsigma_t(a, c_prime, e) == IF a # 0 THEN e ELSE PosInf

\* FOC_s bound to the grid itself: filling it overwrites the grid.
GridAfterFill_SameArray(share_girds, FOC_s) == FOC_s

\* FOC_s = np.empty_like(share_girds) is a new array: the writes
\* FOC_s[j] = ... leave the array share_girds as it was.
GridAfterFill(share_girds, FOC_s) == share_girds

\* What the engine's share grid is after varsigma_Tminus1(a) / varsigma_t(a,
\* c_prime) has filled its FOC_s.
GridAfterCall(a, E) ==
    GridAfterFill(self_varsigma_grids,
                  [j \in 1..Len(self_varsigma_grids) |->
                     Vsigma_Tminus1(a, E[j])])

Returned(x) == [raised |-> FALSE, ret |-> x]

\* An exception leaves the function: nothing is returned.
Raised == [raised |-> TRUE, ret |-> NaN]

\* The first corner tested at the first share, FOC_s[0] > 0.0, instead of the
\* last.
varsigma_Tminus1_CornerAtFirst(a, E) ==
    LET share_girds == self_varsigma_grids
        n == Len(share_girds)
        FOC_s == [j \in 1..n |-> IF a # 0 THEN E[j] ELSE PosInf]
        crossing == {k \in 1..(n - 1) :
                       RLe(FOC_s[k + 1], RInt(0)) /\ RLe(RInt(0), FOC_s[k])}
    IN IF a < 0 THEN Returned(RInt(0))
       ELSE IF n = 0 THEN Raised
       ELSE IF RLt(RInt(0), FOC_s[1]) THEN Returned(RInt(1))
       ELSE IF RLt(FOC_s[1], RInt(0)) THEN Returned(RInt(0))
       ELSE IF crossing = {} THEN Raised
       ELSE LET idx == CHOOSE k \in crossing : \A q \in crossing : k <= q
                bot_s == share_girds[idx]
                top_s == share_girds[idx + 1]
                bot_f == FOC_s[idx]
                top_f == FOC_s[idx + 1]
                alpha == RSub(RInt(1), RDiv(top_f, RSub(top_f, bot_f)))
            IN Returned(RAdd(RMul(RSub(RInt(1), alpha), bot_s),
                             RMul(alpha, top_s)))

\* A search that falls back on the share 0 when no pair brackets a zero.
varsigma_Tminus1_DefaultsToZero(a, E) ==
    LET share_girds == self_varsigma_grids
        n == Len(share_girds)
        FOC_s == [j \in 1..n |-> IF a # 0 THEN E[j] ELSE PosInf]
        crossing == {k \in 1..(n - 1) :
                       RLe(FOC_s[k + 1], RInt(0)) /\ RLe(RInt(0), FOC_s[k])}
    IN IF a < 0 THEN Returned(RInt(0))
       ELSE IF n = 0 THEN Raised
       ELSE IF RLt(RInt(0), FOC_s[n]) THEN Returned(RInt(1))
       ELSE IF RLt(FOC_s[1], RInt(0)) THEN Returned(RInt(0))
       ELSE IF crossing = {} THEN Returned(RInt(0))
       ELSE LET idx == CHOOSE k \in crossing : \A q \in crossing : k <= q
                bot_s == share_girds[idx]
                top_s == share_girds[idx + 1]
                bot_f == FOC_s[idx]
                top_f == FOC_s[idx + 1]
                alpha == RSub(RInt(1), RDiv(top_f, RSub(top_f, bot_f)))
            IN Returned(RAdd(RMul(RSub(RInt(1), alpha), bot_s),
                             RMul(alpha, top_s)))

\* varsigma_Tminus1(a).  E[j] is what the expectation of Vsigma_Tminus1 comes
\* to at the j-th share of the grid.
varsigma_Tminus1(a, E) ==
    LET share_girds == self_varsigma_grids
        n == Len(share_girds)
        FOC_s == [j \in 1..n |-> Vsigma_Tminus1(a, E[j])]
        crossing == {k \in 1..(n - 1) :
                       RLe(FOC_s[k + 1], RInt(0)) /\ RLe(RInt(0), FOC_s[k])}
    IN IF a < 0 THEN Returned(RInt(0))
       ELSE IF n = 0 THEN Raised
       ELSE IF RLt(RInt(0), FOC_s[n]) THEN Returned(RInt(1))
       ELSE IF RLt(FOC_s[1], RInt(0)) THEN Returned(RInt(0))
       ELSE IF crossing = {} THEN Raised
       ELSE LET idx == CHOOSE k \in crossing : \A q \in crossing : k <= q
                bot_s == share_girds[idx]
                top_s == share_girds[idx + 1]
                bot_f == FOC_s[idx]
                top_f == FOC_s[idx + 1]
                alpha == RSub(RInt(1), RDiv(top_f, RSub(top_f, bot_f)))
            IN Returned(RAdd(RMul(RSub(RInt(1), alpha), bot_s),
                             RMul(alpha, top_s)))

\* The last bracketing pair taken, np.argwhere(crossing)[-1].
varsigma_t_LastCrossing(a, c_prime, E) ==
    LET share_girds == self_varsigma_grids
        n == Len(share_girds)
        FOC_s == [j \in 1..n |-> IF a # 0 THEN E[j] ELSE PosInf]
        crossing == {k \in 1..(n - 1) :
                       RLe(FOC_s[k + 1], RInt(0)) /\ RLe(RInt(0), FOC_s[k])}
    IN IF a < 0 THEN Returned(RInt(0))
       ELSE IF n = 0 THEN Raised
       ELSE IF RLt(RInt(0), FOC_s[n]) THEN Returned(RInt(1))
       ELSE IF RLt(FOC_s[1], RInt(0)) THEN Returned(RInt(0))
       ELSE IF crossing = {} THEN Raised
       ELSE LET idx == CHOOSE k \in crossing : \A q \in crossing : k >= q
                bot_s == share_girds[idx]
                top_s == share_girds[idx + 1]
                bot_f == FOC_s[idx]
                top_f == FOC_s[idx + 1]
                alpha == RSub(RInt(1), RDiv(top_f, RSub(top_f, bot_f)))
            IN Returned(RAdd(RMul(RSub(RInt(1), alpha), bot_s),
                             RMul(alpha, top_s)))

\* A search for a strict change of sign: FOC_s[1:] < 0.0 and FOC_s[:-1] > 0.0.
varsigma_t_StrictCrossing(a, c_prime, E) ==
    LET n == Len(self_varsigma_grids)
        FOC_s == [j \in 1..n |-> IF a # 0 THEN E[j] ELSE PosInf]
        strict == {k \in 1..(n - 1) :
                     RLt(FOC_s[k + 1], RInt(0)) /\ RLt(RInt(0), FOC_s[k])}
    IN IF a < 0 \/ n = 0 \/ RLt(RInt(0), FOC_s[n]) \/ RLt(FOC_s[1], RInt(0))
          \/ strict # {}
       THEN varsigma_Tminus1(a, E)
       ELSE Raised

\* The corner tests in the other order: FOC_s[0] < 0.0 tested first.
varsigma_t_ZeroCornerFirst(a, c_prime, E) ==
    LET n == Len(self_varsigma_grids)
    IN IF a >= 0 /\ n > 0 /\ a # 0 /\ RLt(E[1], RInt(0))
       THEN Returned(RInt(0))
       ELSE varsigma_Tminus1(a, E)

\* The test "if a <= 0" in place of "if a < 0": share 0 at zero assets.
varsigma_t_ZeroAtZeroAssets(a, c_prime, E) ==
    IF a = 0 THEN Returned(RInt(0)) ELSE varsigma_Tminus1(a, E)

\* The search run for a < 0 as well: the test "if a < 0" left out.
varsigma_t_SearchesNegative(a, c_prime, E) ==
    IF a < 0 THEN varsigma_Tminus1(-a, E) ELSE varsigma_Tminus1(a, E)

\* varsigma_t(a, c_prime): the same search over Vsigma_t.
varsigma_t(a, c_prime, E) ==
    LET share_girds == self_varsigma_grids
        n == Len(share_girds)
        FOC_s == [j \in 1..n |-> Vsigma_t(a, c_prime, E[j])]
        crossing == {k \in 1..(n - 1) :
                       RLe(FOC_s[k + 1], RInt(0)) /\ RLe(RInt(0), FOC_s[k])}
    IN IF a < 0 THEN Returned(RInt(0))
       ELSE IF n = 0 THEN Raised
       ELSE IF RLt(RInt(0), FOC_s[n]) THEN Returned(RInt(1))
       ELSE IF RLt(FOC_s[1], RInt(0)) THEN Returned(RInt(0))
       ELSE IF crossing = {} THEN Raised
       ELSE LET idx == CHOOSE k \in crossing : \A q \in crossing : k <= q
                bot_s == share_girds[idx]
                top_s == share_girds[idx + 1]
                bot_f == FOC_s[idx]
                top_f == FOC_s[idx + 1]
                alpha == RSub(RInt(1), RDiv(top_f, RSub(top_f, bot_f)))
            IN Returned(RAdd(RMul(RSub(RInt(1), alpha), bot_s),
                             RMul(alpha, top_s)))

\* Va_Tminus1(a): solves the share again, then takes the expectation of
\* (R + (rreturn - R) * varsigma_opt) * u'(...): not-a-number once the share
\* is, else the value va of the expectation.
Va_Tminus1(a, E, va) ==
    LET varsigma_opt == varsigma_Tminus1(a, E)
    IN IF varsigma_opt.raised THEN Raised
       ELSE IF IsNaN(varsigma_opt.ret) THEN Returned(NaN)
       ELSE Returned(va)

Va_t(a, c_prime, E, va) ==
    LET varsigma_opt == varsigma_t(a, c_prime, E)
    IN IF varsigma_opt.raised THEN Raised
       ELSE IF IsNaN(varsigma_opt.ret) THEN Returned(NaN)
       ELSE Returned(va)

RECURSIVE IntPow(_, _)
IntPow(b, e) == IF e = 0 THEN 1 ELSE b * IntPow(b, e - 1)

\* k ** (1 / rho) for a k that is a rho-th power.
RootRho(k) == CHOOSE r \in 0..k : IntPow(r, rho_port) = k

\* v ** (-1.0 / self.rho) on a numpy float, in hundredths: not-a-number for a
\* negative base, infinity for the base 0, no exception.
PowNegInvRho(v) ==
    IF IsNaN(v) \/ v.num < 0 THEN Returned(NaN)
    ELSE IF v.num = 0 THEN Returned(PosInf)
    ELSE IF v.den = 0 THEN Returned(RInt(0))
    ELSE Returned(Norm(100 * RootRho(v.den), RootRho(v.num)))

\* C_Tminus1(a) = Va_Tminus1(a) ** (-1.0 / rho)
C_Tminus1(a, E, va) ==
    LET v == Va_Tminus1(a, E, va)
    IN IF v.raised THEN Raised ELSE PowNegInvRho(v.ret)

\* C_t(a, c_prime) = Va_t(a, c_prime) ** (-1.0 / rho)
C_t(a, c_prime, E, va) ==
    LET v == Va_t(a, c_prime, E, va)
    IN IF v.raised THEN Raised ELSE PowNegInvRho(v.ret)

\* --------------------------------------------- the portfolio solves
\* The whole list: no entry dropped.
Tail1_Whole(s) == s

\* s[:-1]: the last entry dropped instead of the first.
Tail1_DropsLast(s) == [k \in 1..(Len(s) - 1) |-> s[k]]

\* s[1:]
Tail1(s) == [k \in 1..(Len(s) - 1) |-> s[k + 1]]

\* The loop ending one period early, range(T - 2, 1, -1).
PortLoopHasNext_StopsAtTwo(tt) == tt - 1 > 1

\* The loop of the consumption solve, range(T - 2, -1, -1), used here.
PortLoopHasNext_DownToZero(tt) == tt - 1 > -1

\* for t in range(T - 2, 0, -1): whether a period follows period tt
PortLoopHasNext(tt) == tt - 1 > 0

InPortSolve == pc \in {"port_last", "port_loop", "port_sweep", "port_done"}

\* The list emptied in place instead of a new list being made.
FreshList_SameObject(id) == id

\* cVec_port = [0.0] binds the name to a list object that did not exist before.
FreshList(id) == id + 1

\* A dictionary of lists after the list object id has come to hold new: an
\* entry that is this very object shows the new content.
WriteThrough(d, id, new) ==
    [p \in DOMAIN d |->
       IF p \in DOMAIN grid_ids /\ grid_ids[p] = id THEN new ELSE d[p]]

\* What the expectations of Vsigma_* come to over the share grid during a
\* solve: every value of fOut is taken, and the values do not rise with the
\* share.
PortProfiles ==
    {E \in [1..share_grid_size -> fOut] :
       /\ \A j, k \in 1..share_grid_size : j < k => ~RLt(E[j], E[k])
       /\ \A f \in fOut : \E j \in 1..share_grid_size : E[j] = f}

\* The record of a call of the share solver.
CallRecord(fn, a, FOC_s, r) ==
    [fn |-> fn, a |-> a, FOC_s |-> FOC_s, raised |-> r.raised, ret |-> r.ret]

\* The second solve's cell without its three list assignments: its appends
\* extend the lists the first solve left bound to the names.
PortLastInit_KeepsLists ==
    /\ pc \in {"port", "port_again"}
    /\ run' = IF pc = "port" THEN 2 ELSE 3
    /\ pc' = "port_last"
    /\ t' = T - 1
    /\ i' = 1
    /\ list_id' = IF pc = "port" THEN FreshList(list_id) ELSE list_id
    /\ cVec_port' = IF pc = "port" THEN <<RInt(0)>> ELSE cVec_port
    /\ mVec_port' = IF pc = "port" THEN <<RInt(0)>> ELSE mVec_port
    /\ varsigmaVec_port' =
         IF pc = "port" THEN <<RInt(0)>> ELSE varsigmaVec_port
    /\ mGridPort_life' = WriteThrough(mGridPort_life, list_id', mVec_port')
    /\ cGridPort_life' = WriteThrough(cGridPort_life, list_id', cVec_port')
    /\ varsigmaGrid_life' =
         WriteThrough(varsigmaGrid_life, list_id', varsigmaVec_port')
    /\ cRaw' = <<>>
    /\ vaRaw' = <<>>
    /\ solved' = <<>>
    /\ UNCHANGED <<cFunc, c_next, call, firstPort, fig18Vars, inputVars,
                   consVars, varsigmaFunc, cFuncPort_life, varsigma_life,
                   grid_ids, self_varsigma_grids>>

\* cVec_port = [0.0]; mVec_port = [0.0]; varsigmaVec_port = [0.0]
PortLastInit ==
    /\ pc \in {"port", "port_again"}
    /\ run' = IF pc = "port" THEN 2 ELSE 3
    /\ pc' = "port_last"
    /\ t' = T - 1
    /\ i' = 1
    /\ list_id' = FreshList(list_id)
    /\ cVec_port' = <<RInt(0)>>
    /\ mVec_port' = <<RInt(0)>>
    /\ varsigmaVec_port' = <<RInt(0)>>
    /\ mGridPort_life' = WriteThrough(mGridPort_life, list_id', mVec_port')
    /\ cGridPort_life' = WriteThrough(cGridPort_life, list_id', cVec_port')
    /\ varsigmaGrid_life' =
         WriteThrough(varsigmaGrid_life, list_id', varsigmaVec_port')
    /\ cRaw' = <<>>
    /\ vaRaw' = <<>>
    /\ solved' = <<>>
    /\ UNCHANGED <<cFunc, c_next, call, firstPort, fig18Vars, inputVars,
                   consVars, varsigmaFunc, cFuncPort_life, varsigma_life,
                   grid_ids, self_varsigma_grids>>

\* One pass of the body of "for a in aVec_eee_big" of the last period:
\* varsigma = gothicMC.varsigma_Tminus1(a); c = gothicMC.C_Tminus1(a); ...
PortLastGrid ==
    /\ pc = "port_last"
    /\ i <= Len(aVec_eee_big)
    /\ \E E \in PortProfiles, va \in vaOut :
         LET a == aVec_eee_big[i]
             varsigma == varsigma_Tminus1(a, E)
             c1 == C_Tminus1(a, E, va)
             m == CashOnHand(c1.ret, a)
             c == np_minimum(c1.ret, m)
         IN /\ call' = CallRecord("varsigma_Tminus1", a,
                                  [j \in 1..Len(self_varsigma_grids) |->
                                     Vsigma_Tminus1(a, E[j])], varsigma)
            /\ self_varsigma_grids' = GridAfterCall(a, E)
            /\ IF varsigma.raised \/ c1.raised
               THEN /\ pc' = "port_IndexError"
                    /\ UNCHANGED <<i, cVec_port, mVec_port, varsigmaVec_port,
                                   cRaw, vaRaw, mGridPort_life,
                                   cGridPort_life, varsigmaGrid_life>>
               ELSE /\ cVec_port' = Append(cVec_port, c)
                    /\ mVec_port' = Append(mVec_port, m)
                    /\ varsigmaVec_port' =
                         Append(varsigmaVec_port, varsigma.ret)
                    /\ mGridPort_life' =
                         WriteThrough(mGridPort_life, list_id, mVec_port')
                    /\ cGridPort_life' =
                         WriteThrough(cGridPort_life, list_id, cVec_port')
                    /\ varsigmaGrid_life' =
                         WriteThrough(varsigmaGrid_life, list_id,
                                      varsigmaVec_port')
                    /\ cRaw' = Append(cRaw, c1.ret)
                    /\ vaRaw' = Append(vaRaw, Va_Tminus1(a, E, va).ret)
                    /\ i' = i + 1
                    /\ pc' = pc
    /\ c_next' = NoPolicy
    /\ UNCHANGED <<run, t, cFunc, solved, firstPort, fig18Vars, inputVars,
                   consVars, varsigmaFunc, cFuncPort_life, varsigma_life,
                   list_id, grid_ids>>

\* cFunc = InterpolatedUnivariateSpline(mVec_port, cVec_port, k=1)
\* varsigmaFunc = InterpolatedUnivariateSpline(mVec_port[1:],
\*                                             varsigmaVec_port[1:], k=1)
\* and the five dictionaries are created with the key T - 1.
PortLastFit ==
    /\ pc = "port_last"
    /\ i > Len(aVec_eee_big)
    /\ cFunc' = Spline(run, T - 1, mVec_port, cVec_port)
    /\ varsigmaFunc' =
         Spline(run, T - 1, Tail1(mVec_port), Tail1(varsigmaVec_port))
    /\ mGridPort_life' = DictOf(T - 1, mVec_port)
    /\ cGridPort_life' = DictOf(T - 1, cVec_port)
    /\ varsigmaGrid_life' = DictOf(T - 1, varsigmaVec_port)
    /\ grid_ids' = DictOf(T - 1, list_id)
    /\ cFuncPort_life' = DictOf(T - 1, cFunc')
    /\ varsigma_life' = DictOf(T - 1, varsigmaFunc')
    /\ solved' = Append(solved, T - 1)
    /\ pc' = "port_loop"
    /\ UNCHANGED <<run, t, i, c_next, cRaw, vaRaw, call, firstPort,
                   fig18Vars, inputVars, consVars, cVec_port, mVec_port,
                   varsigmaVec_port, list_id, self_varsigma_grids>>

\* The head of "for t in range(T - 2, 0, -1)" taking the next period.
PortLoopInit ==
    /\ pc = "port_loop"
    /\ PortLoopHasNext(t)
    /\ t' = t - 1
    /\ i' = 1
    /\ list_id' = FreshList(list_id)
    /\ cVec_port' = <<RInt(0)>>
    /\ mVec_port' = <<RInt(0)>>
    /\ varsigmaVec_port' = <<RInt(0)>>
    /\ mGridPort_life' = WriteThrough(mGridPort_life, list_id', mVec_port')
    /\ cGridPort_life' = WriteThrough(cGridPort_life, list_id', cVec_port')
    /\ varsigmaGrid_life' =
         WriteThrough(varsigmaGrid_life, list_id', varsigmaVec_port')
    /\ cRaw' = <<>>
    /\ vaRaw' = <<>>
    /\ pc' = "port_sweep"
    /\ UNCHANGED <<run, cFunc, c_next, solved, call, firstPort, fig18Vars,
                   inputVars, consVars, varsigmaFunc, cFuncPort_life,
                   varsigma_life, grid_ids, self_varsigma_grids>>

\* The sweep going on to the next grid point when the evaluation raises, as a
\* try / except around the body would make it.
PortLoopGrid_SkipsFailedPoint ==
    /\ pc = "port_sweep"
    /\ i <= Len(aVec_eee_big)
    /\ \E E \in PortProfiles, va \in vaOut :
         LET a == aVec_eee_big[i]
             varsigma == varsigma_t(a, cFunc, E)
             c1 == C_t(a, cFunc, E, va)
             m == CashOnHand(c1.ret, a)
             c == np_minimum(c1.ret, m)
         IN /\ call' = CallRecord("varsigma_t", a,
                                  [j \in 1..Len(self_varsigma_grids) |->
                                     Vsigma_t(a, cFunc, E[j])], varsigma)
            /\ self_varsigma_grids' = GridAfterCall(a, E)
            /\ IF varsigma.raised \/ c1.raised
               THEN UNCHANGED <<cVec_port, mVec_port, varsigmaVec_port,
                                cRaw, vaRaw, mGridPort_life,
                                cGridPort_life, varsigmaGrid_life>>
               ELSE /\ cVec_port' = Append(cVec_port, c)
                    /\ mVec_port' = Append(mVec_port, m)
                    /\ varsigmaVec_port' =
                         Append(varsigmaVec_port, varsigma.ret)
                    /\ mGridPort_life' =
                         WriteThrough(mGridPort_life, list_id, mVec_port')
                    /\ cGridPort_life' =
                         WriteThrough(cGridPort_life, list_id, cVec_port')
                    /\ varsigmaGrid_life' =
                         WriteThrough(varsigmaGrid_life, list_id,
                                      varsigmaVec_port')
                    /\ cRaw' = Append(cRaw, c1.ret)
                    /\ vaRaw' = Append(vaRaw, Va_t(a, cFunc, E, va).ret)
    /\ i' = i + 1
    /\ pc' = pc
    /\ c_next' = cFunc
    /\ UNCHANGED <<run, t, cFunc, solved, firstPort, fig18Vars, inputVars,
                   consVars, varsigmaFunc, cFuncPort_life, varsigma_life,
                   list_id, grid_ids>>

\* One pass of the body of "for a in aVec_eee_big" of an earlier period:
\* varsigma = gothicMC.varsigma_t(a, cFunc); c = gothicMC.C_t(a, cFunc); ...
PortLoopGrid ==
    /\ pc = "port_sweep"
    /\ i <= Len(aVec_eee_big)
    /\ \E E \in PortProfiles, va \in vaOut :
         LET a == aVec_eee_big[i]
             varsigma == varsigma_t(a, cFunc, E)
             c1 == C_t(a, cFunc, E, va)
             m == CashOnHand(c1.ret, a)
             c == np_minimum(c1.ret, m)
         IN /\ call' = CallRecord("varsigma_t", a,
                                  [j \in 1..Len(self_varsigma_grids) |->
                                     Vsigma_t(a, cFunc, E[j])], varsigma)
            /\ self_varsigma_grids' = GridAfterCall(a, E)
            /\ IF varsigma.raised \/ c1.raised
               THEN /\ pc' = "port_IndexError"
                    /\ UNCHANGED <<i, cVec_port, mVec_port, varsigmaVec_port,
                                   cRaw, vaRaw, mGridPort_life,
                                   cGridPort_life, varsigmaGrid_life>>
               ELSE /\ cVec_port' = Append(cVec_port, c)
                    /\ mVec_port' = Append(mVec_port, m)
                    /\ varsigmaVec_port' =
                         Append(varsigmaVec_port, varsigma.ret)
                    /\ mGridPort_life' =
                         WriteThrough(mGridPort_life, list_id, mVec_port')
                    /\ cGridPort_life' =
                         WriteThrough(cGridPort_life, list_id, cVec_port')
                    /\ varsigmaGrid_life' =
                         WriteThrough(varsigmaGrid_life, list_id,
                                      varsigmaVec_port')
                    /\ cRaw' = Append(cRaw, c1.ret)
                    /\ vaRaw' = Append(vaRaw, Va_t(a, cFunc, E, va).ret)
                    /\ i' = i + 1
                    /\ pc' = pc
    /\ c_next' = cFunc
    /\ UNCHANGED <<run, t, cFunc, solved, firstPort, fig18Vars, inputVars,
                   consVars, varsigmaFunc, cFuncPort_life, varsigma_life,
                   list_id, grid_ids>>

\* The fits of the period and the five dictionary stores under the key t.
PortLoopFit ==
    /\ pc = "port_sweep"
    /\ i > Len(aVec_eee_big)
    /\ cFunc' = Spline(run, t, mVec_port, cVec_port)
    /\ varsigmaFunc' =
         Spline(run, t, Tail1(mVec_port), Tail1(varsigmaVec_port))
    /\ mGridPort_life' = DictSet(mGridPort_life, t, mVec_port)
    /\ cGridPort_life' = DictSet(cGridPort_life, t, cVec_port)
    /\ varsigmaGrid_life' = DictSet(varsigmaGrid_life, t, varsigmaVec_port)
    /\ grid_ids' = DictSet(grid_ids, t, list_id)
    /\ cFuncPort_life' = DictSet(cFuncPort_life, t, cFunc')
    /\ varsigma_life' = DictSet(varsigma_life, t, varsigmaFunc')
    /\ solved' = Append(solved, t)
    /\ pc' = "port_loop"
    /\ UNCHANGED <<run, t, i, c_next, cRaw, vaRaw, call, firstPort,
                   fig18Vars, inputVars, consVars, cVec_port, mVec_port,
                   varsigmaVec_port, list_id, self_varsigma_grids>>

\* The range of the loop is exhausted.
PortLoopExit ==
    /\ pc = "port_loop"
    /\ ~PortLoopHasNext(t)
    /\ pc' = "port_done"
    /\ UNCHANGED <<run, t, i, cFunc, c_next, cRaw, solved, call, firstPort,
                   fig18Vars, inputVars, consVars, portVars>>

\* Figure 20: cFunc = cFuncPort_life[1]; a missing key is a KeyError.
Figure20 ==
    /\ pc = "port_done"
    /\ run = 2
    /\ IF 1 \in DOMAIN cFuncPort_life
       THEN cFunc' = cFuncPort_life[1] /\ pc' = "fig20"
       ELSE cFunc' = cFunc /\ pc' = "fig20_KeyError"
    /\ UNCHANGED <<run, t, i, c_next, cRaw, solved, call, firstPort,
                   fig18Vars, inputVars, consVars, portVars>>

\* The grid of the portfolio solve and the five dictionaries it leaves.
PortSolution ==
    [aVec_eee_big |-> aVec_eee_big,
     cFuncPort_life |-> cFuncPort_life,
     varsigma_life |-> varsigma_life,
     mGridPort_life |-> mGridPort_life,
     cGridPort_life |-> cGridPort_life,
     varsigmaGrid_life |-> varsigmaGrid_life]

\* aVec_eee_big = a_grid[1:]: the second portfolio solve runs on another grid.
SecondGrid ==
    /\ pc \in {"fig20", "fig20_KeyError"}
    /\ aVec_eee_big' \in {g \in Grids : Len(g) >= 2}
    /\ firstPort' = PortSolution
    /\ pc' = "port_again"
    /\ UNCHANGED <<run, t, i, cFunc, c_next, cRaw, solved, call, fig18Vars,
                   T, theta_X_min, constrained, aVec_eee, cOut, fOut, vaOut,
                   share_grid_size, consVars, portVars>>

NextPort ==
    \/ PortLastInit
    \/ PortLastGrid
    \/ PortLastFit
    \/ PortLoopInit
    \/ PortLoopGrid
    \/ PortLoopFit
    \/ PortLoopExit
    \/ Figure20
    \/ SecondGrid

\* The cells of the portfolio solve follow those of the consumption solve; a
\* cell that ended with an error does not keep the next one from running.
StartPort ==
    /\ pc \in {"fig19", "fig19_KeyError"}
    /\ pc' = "port"
    /\ UNCHANGED <<run, t, i, cFunc, c_next, cRaw, solved, call, firstPort,
                   fig18Vars, inputVars, consVars, portVars>>

\* ------------------------------------------ the share solver, called
\* A call gothicMC.varsigma_Tminus1(a) or gothicMC.varsigma_t(a, cFunc) with
\* any a and any values of the expectations.
CallVarsigmaTminus1 ==
    /\ pc = "share"
    /\ \E a \in AVals, E \in [1..share_grid_size -> fOut] :
         LET r == varsigma_Tminus1(a, E)
         IN /\ call' = CallRecord("varsigma_Tminus1", a,
                                  [j \in 1..Len(E) |->
                                     Vsigma_Tminus1(a, E[j])], r)
            /\ self_varsigma_grids' = GridAfterCall(a, E)
    /\ UNCHANGED <<pc, run, t, i, cFunc, c_next, cRaw, solved, firstPort,
                   fig18Vars, inputVars, consVars, cVec_port, mVec_port,
                   varsigmaVec_port, varsigmaFunc, mGridPort_life,
                   cGridPort_life, varsigmaGrid_life, cFuncPort_life,
                   varsigma_life, list_id, grid_ids, vaRaw>>

CallVarsigmaT ==
    /\ pc = "share"
    /\ \E a \in AVals, E \in [1..share_grid_size -> fOut] :
         LET r == varsigma_t(a, cFunc, E)
         IN /\ call' = CallRecord("varsigma_t", a,
                                  [j \in 1..Len(E) |->
                                     Vsigma_t(a, cFunc, E[j])], r)
            /\ self_varsigma_grids' = GridAfterCall(a, E)
    /\ UNCHANGED <<pc, run, t, i, cFunc, c_next, cRaw, solved, firstPort,
                   fig18Vars, inputVars, consVars, cVec_port, mVec_port,
                   varsigmaVec_port, varsigmaFunc, mGridPort_life,
                   cGridPort_life, varsigmaGrid_life, cFuncPort_life,
                   varsigma_life, list_id, grid_ids, vaRaw>>

NextShare == CallVarsigmaTminus1 \/ CallVarsigmaT

\* ---------------------------------------------------- specifications
\* The state in which the cell of the consumption solve starts.
InitCommon ==
    /\ run = 0
    /\ t = 0
    /\ i = 0
    /\ cVec = <<>>
    /\ mVec = <<>>
    /\ cFunc = Unbound
    /\ cFunc_life = EmptyDict
    /\ c_next = NoPolicy
    /\ cRaw = <<>>
    /\ solved = <<>>
    /\ cVec_port = <<>>
    /\ mVec_port = <<>>
    /\ varsigmaVec_port = <<>>
    /\ varsigmaFunc = Unbound
    /\ mGridPort_life = EmptyDict
    /\ cGridPort_life = EmptyDict
    /\ varsigmaGrid_life = EmptyDict
    /\ cFuncPort_life = EmptyDict
    /\ varsigma_life = EmptyDict
    /\ list_id = 0
    /\ grid_ids = [p \in {} |-> 0]
    /\ vaRaw = <<>>
    /\ cVec_const = <<>>
    /\ mVec_const = <<>>
    /\ cVec_uconst = <<>>
    /\ mVec_uconst = <<>>
    /\ firstPort = [aVec_eee_big |-> <<>>, cFuncPort_life |-> EmptyDict,
                    varsigma_life |-> EmptyDict, mGridPort_life |-> EmptyDict,
                    cGridPort_life |-> EmptyDict,
                    varsigmaGrid_life |-> EmptyDict]
    /\ call = [fn |-> "none", a |-> 0, FOC_s |-> <<>>, raised |-> FALSE,
               ret |-> NaN]

\* The consumption solve alone.  One run of the engine takes two of the
\* values of CVals.
InitCons ==
    /\ InitCommon
    /\ pc = "cons"
    /\ T \in 1..MaxT
    /\ theta_X_min \in ThetaMinVals
    /\ constrained \in BOOLEAN
    /\ aVec_eee \in Grids
    /\ cOut \in {S \in SUBSET CVals : Cardinality(S) = 2}
    /\ fOut = FVals
    /\ vaOut = VaVals
    /\ share_grid_size = 2
    /\ self_varsigma_grids = varsigma_grids(share_grid_size)
    /\ aVec_eee_big = <<100>>
    /\ aVec_fine = <<100>>

SpecCons == InitCons /\ [][NextCons]_vars

\* The portfolio solves alone: the cells of section 12 run in a fresh session
\* opened at the first of them.  One run of the engine is one choice of the
\* values its expectations take.
InitPort ==
    /\ InitCommon
    /\ pc = "port"
    /\ T \in 1..MaxT
    /\ theta_X_min = 102
    /\ constrained = TRUE
    /\ aVec_eee = <<100>>
    /\ cOut = CVals
    /\ share_grid_size \in 1..MaxShareGrid
    /\ fOut \in {{f} : f \in FVals}
                \cup (IF share_grid_size = 2
                      THEN {{RInt(1), RInt(-1)}} ELSE {})
    /\ vaOut \in {{v} : v \in VaVals}
    /\ self_varsigma_grids = varsigma_grids(share_grid_size)
    /\ aVec_eee_big \in {g \in Grids : Len(g) >= 2}
    /\ aVec_fine = <<100>>

SpecPort == InitPort /\ [][NextPort]_vars

\* The share solver on its own, over every a and every vector of values.
InitShare ==
    /\ InitCommon
    /\ pc = "share"
    /\ T = 1
    /\ theta_X_min = 102
    /\ constrained = TRUE
    /\ aVec_eee = <<100>>
    /\ cOut = CVals
    /\ fOut = FVals
    /\ vaOut = VaVals
    /\ share_grid_size \in 1..MaxShareGrid
    /\ self_varsigma_grids = varsigma_grids(share_grid_size)
    /\ aVec_eee_big = <<0, 100>>
    /\ aVec_fine = <<100>>

SpecShare == InitShare /\ [][NextShare]_vars

\* The notebook from the consumption solve to the second portfolio solve.
Init ==
    /\ InitCommon
    /\ pc = "cons"
    /\ T \in 1..MaxT
    /\ theta_X_min = 102
    /\ constrained = TRUE
    /\ aVec_eee \in Grids
    /\ cOut = {100}
    /\ share_grid_size \in 1..MaxShareGrid
    /\ fOut \in {{f} : f \in FVals}
                \cup (IF share_grid_size = 2 THEN {{RInt(1), NaN}} ELSE {})
    /\ vaOut = {RInt(1)}
    /\ self_varsigma_grids = varsigma_grids(share_grid_size)
    /\ aVec_eee_big \in {g \in Grids : Len(g) >= 2}
    /\ aVec_fine = <<100>>

Next == NextCons \/ ConsGridRaises \/ StartPort \/ NextPort

Spec == Init /\ [][Next]_vars

\* The notebook with a horizon long enough for Figure 19, which reads the
\* policies of nine periods: the engine's expectations take one value each.
InitLong ==
    /\ InitCommon
    /\ pc = "cons"
    /\ T \in (MaxLongT - 2)..MaxLongT
    /\ theta_X_min = 102
    /\ constrained = TRUE
    /\ aVec_eee \in {g \in Grids : Len(g) = 1}
    /\ cOut = {100}
    /\ share_grid_size = 2
    /\ fOut \in {{RInt(1)}, {RInt(1), RInt(-1)}}
    /\ vaOut = {RInt(1)}
    /\ self_varsigma_grids = varsigma_grids(share_grid_size)
    /\ aVec_eee_big = <<0, 100>>
    /\ aVec_fine = <<100>>

SpecLong == InitLong /\ [][Next]_vars

\* ------------------------- the two T-1 solutions of Figure 18
\* The second block's "if constrained and self_a_min < 0: mVec_const = [0.0]"
\* without its test of constrained.
RebindConst_Unguarded(constr, amin, old) ==
    IF amin < 0 THEN <<RInt(0)>> ELSE old

\* if constrained and self_a_min < 0: mVec_const = [0.0]
\* What the name mVec_const is bound to after the statement.
RebindConst(constr, amin, old) ==
    IF constr /\ amin < 0 THEN <<RInt(0)>> ELSE old

\* constrained = True; cVec_const = [0.0]; mVec_const = [self_a_min];
\* if constrained and self_a_min < 0: mVec_const = [0.0]
ConstInit ==
    /\ pc = "fig18"
    /\ constrained' = TRUE
    /\ cVec_const' = <<RInt(0)>>
    /\ mVec_const' = RebindConst(constrained', self_a_min,
                                 <<RInt(self_a_min)>>)
    /\ i' = 1
    /\ cRaw' = <<>>
    /\ pc' = "fig18_const"
    /\ UNCHANGED <<run, t, cFunc, c_next, solved, call, firstPort, aVec_fine,
                   cVec_uconst, mVec_uconst, T, theta_X_min, aVec_eee, cOut,
                   fOut, vaOut, share_grid_size, aVec_eee_big, consVars,
                   portVars>>

\* One pass of the body of the first "for a in aVec_fine".
ConstGrid ==
    /\ pc = "fig18_const"
    /\ i <= Len(aVec_fine)
    /\ \E c0 \in cOut :
         LET a == aVec_fine[i]
             m == CashOnHand(RInt(c0), a)
             c == ClipC(constrained, RInt(c0), m)
         IN /\ cVec_const' = Append(cVec_const, c)
            /\ mVec_const' = Append(mVec_const, m)
            /\ cRaw' = Append(cRaw, RInt(c0))
    /\ i' = i + 1
    /\ UNCHANGED <<pc, run, t, cFunc, c_next, solved, call, firstPort,
                   aVec_fine, cVec_uconst, mVec_uconst, inputVars, consVars,
                   portVars>>

\* constrained = False; cVec_uconst = [0.0]; mVec_uconst = [self_a_min];
\* if constrained and self_a_min < 0: mVec_const = [0.0]
UconstInit ==
    /\ pc = "fig18_const"
    /\ i > Len(aVec_fine)
    /\ constrained' = FALSE
    /\ cVec_uconst' = <<RInt(0)>>
    /\ mVec_uconst' = <<RInt(self_a_min)>>
    /\ mVec_const' = RebindConst(constrained', self_a_min, mVec_const)
    /\ i' = 1
    /\ pc' = "fig18_uconst"
    /\ UNCHANGED <<run, t, cFunc, c_next, cRaw, solved, call, firstPort,
                   aVec_fine, cVec_const, T, theta_X_min, aVec_eee, cOut,
                   fOut, vaOut, share_grid_size, aVec_eee_big, consVars,
                   portVars>>

\* One pass of the body of the second "for a in aVec_fine":
\* gothic.C_Tminus1(a) returns what it returned for this a in the first loop.
UconstGrid ==
    /\ pc = "fig18_uconst"
    /\ i <= Len(aVec_fine)
    /\ LET a == aVec_fine[i]
           m == CashOnHand(cRaw[i], a)
           c == ClipC(constrained, cRaw[i], m)
       IN /\ cVec_uconst' = Append(cVec_uconst, c)
          /\ mVec_uconst' = Append(mVec_uconst, m)
    /\ i' = i + 1
    /\ UNCHANGED <<pc, run, t, cFunc, c_next, cRaw, solved, call, firstPort,
                   aVec_fine, cVec_const, mVec_const, inputVars, consVars,
                   portVars>>

\* Figure 18 plots the four lists.
Figure18 ==
    /\ pc = "fig18_uconst"
    /\ i > Len(aVec_fine)
    /\ pc' = "fig18_done"
    /\ UNCHANGED <<run, t, i, cFunc, c_next, cRaw, solved, call, firstPort,
                   fig18Vars, inputVars, consVars, portVars>>

NextFig18 == ConstInit \/ ConstGrid \/ UconstInit \/ UconstGrid \/ Figure18

\* The cells of section 10, for every sign of the natural borrowing limit.
InitFig18 ==
    /\ InitCommon
    /\ pc = "fig18"
    /\ T = 1
    /\ theta_X_min \in ThetaMinVals
    /\ constrained \in BOOLEAN
    /\ aVec_eee = <<100>>
    /\ cOut \in {S \in SUBSET CVals : Cardinality(S) = 2}
    /\ fOut = FVals
    /\ vaOut = VaVals
    /\ share_grid_size = 2
    /\ self_varsigma_grids = varsigma_grids(share_grid_size)
    /\ aVec_eee_big = <<100>>
    /\ aVec_fine \in Grids

SpecFig18 == InitFig18 /\ [][NextFig18]_vars

\* ------------------------------------------------ the consumption claims
InConsSolve == pc \in {"cons_last", "cons_loop", "cons_sweep", "cons_done"}

\* The keys of the consumption solution.
ConsKeys == DOMAIN cFunc_life

\* C1: during the consumption solve the stored period keys are the periods
\* T-1, T-2, ... in this order of storing, they form the contiguous suffix
\* {t, ..., T-1} that ends at the last completed period, and the period whose
\* sweep is still running has no key; every stored policy is fully built.
C1_StoredInDecreasingOrder ==
    InConsSolve =>
      /\ ConsKeys = SeqRange(solved)
      /\ \A k \in 1..Len(solved) : solved[k] = T - k
      /\ ConsKeys = (T - Len(solved))..(T - 1)
      /\ pc \in {"cons_last", "cons_sweep"} => ConsKeys = (t + 1)..(T - 1)
      /\ pc \in {"cons_loop", "cons_done"} => ConsKeys = t..(T - 1)
      /\ \A p \in ConsKeys :
           /\ cFunc_life[p].period = p
           /\ Len(cFunc_life[p].x) = Len(aVec_eee) + 1

C1_Witness ==
    /\ pc = "cons_sweep"
    /\ t = 0
    /\ i > 1
    /\ ConsKeys = {1, 2}

\* C3: when the consumption solve has completed, the solution holds a policy
\* for every period 0..T-1 and for no other index.
C3_ConsFullyPopulated ==
    pc = "cons_done" =>
      /\ ConsKeys = 0..(T - 1)
      /\ \A p \in ConsKeys : cFunc_life[p].run = 1

C3_Witness == pc = "cons_done" /\ T >= 2 /\ ConsKeys = 0..(T - 1)

\* The number of steps the consumption solve still has to take.
ConsRank ==
    LET L == Len(aVec_eee) IN
    CASE pc = "cons" -> T * (L + 2) + 1
      [] pc \in {"cons_last", "cons_sweep"} -> t * (L + 2) + (L + 1 - i) + 2
      [] pc = "cons_loop" -> t * (L + 2) + 1
      [] OTHER -> 0

\* A step taken inside the solve lowers ConsRank by one.
ConsStepLowersRank ==
    pc \in {"cons", "cons_last", "cons_loop", "cons_sweep"}
      => (ConsRank' = ConsRank - 1)

\* C5: the backward recursion is finite and solves each period once: every
\* step of the solve lowers the number of remaining steps by one, no period is
\* stored twice, and the completed solve has taken exactly T period steps, one
\* for each of the periods 0..T-1.
C5_ExactlyTSteps ==
    /\ [](InConsSolve =>
            /\ \A j, k \in 1..Len(solved) : j # k => solved[j] # solved[k]
            /\ Len(solved) <= T
            /\ ConsRank >= 0
            /\ pc = "cons_done" =>
                 Len(solved) = T /\ SeqRange(solved) = 0..(T - 1))
    /\ [][ConsStepLowersRank]_vars

C5_Witness == pc = "cons_done" /\ T >= 2 /\ Len(solved) = T

\* Every stored consumption policy and the knot lists being built.
ConsKnotLists ==
    {<<cFunc_life[p].x, cFunc_life[p].y>> : p \in ConsKeys}
      \cup (IF InConsSolve THEN {<<mVec, cVec>>} ELSE {})

\* C6 as claimed: the lowest knot of every period's policy is (limit, 0) with
\* limit 0 under the artificial constraint and the natural limit otherwise.
C6_Claimed ==
    \A kl \in ConsKnotLists :
      /\ kl[1][1] = RInt(IF constrained THEN 0 ELSE self_a_min)
      /\ kl[2][1] = RInt(0)

\* C6, amended: the lowest knot of every period's policy is (limit, 0), where
\* limit is the natural limit -min(theta.X)*PermGroFac/R in natural mode and,
\* under the artificial constraint, 0 only when the natural limit is negative
\* and the natural limit itself otherwise (the larger of 0 and the natural
\* limit).
C6_LowestKnot ==
    /\ self_a_min * R_num = -(theta_X_min * PermGroFac * R_den)
    /\ \A kl \in ConsKnotLists :
         /\ kl[2][1] = RInt(0)
         /\ ~constrained => kl[1][1] = RInt(self_a_min)
         /\ constrained =>
              /\ kl[1][1] \in {RInt(0), RInt(self_a_min)}
              /\ RLe(RInt(0), kl[1][1])
              /\ RLe(RInt(self_a_min), kl[1][1])

C6_Witness ==
    /\ constrained
    /\ self_a_min > 0
    /\ pc = "cons_done"
    /\ \A p \in ConsKeys : cFunc_life[p].x[1] = RInt(self_a_min)

\* C7: under the artificial constraint every knot (m, c) of every period's
\* policy, the boundary knot included, has c <= m.
C7_ConsumptionAtMostResources ==
    constrained =>
      \A kl \in ConsKnotLists :
        \A k \in 1..Len(kl[1]) : RLe(kl[2][k], kl[1][k])

\* A grid point below zero where the clip lowered the engine's consumption.
C7_Witness ==
    /\ constrained
    /\ pc = "cons_sweep"
    /\ \E k \in 1..Len(cRaw) : aVec_eee[k] < 0 /\ RLt(cVec[k + 1], cRaw[k])

\* The grid and the engine's values of the sweep so far are as C8 assumes.
C8_Given ==
    /\ StrictlyIncreasing(aVec_eee)
    /\ \A k \in 1..Len(aVec_eee) : aVec_eee[k] >= 0
    /\ \A k \in 1..Len(cRaw) : RLt(RInt(0), cRaw[k])
    /\ RStrictlyIncreasing([k \in 1..Len(cRaw) |->
                              RAdd(cRaw[k], RInt(aVec_eee[k]))])

\* The knot states are the boundary knot and then c + a of each grid point in
\* grid order, as computed: nothing is sorted or dropped.
C8_AsComputed ==
    /\ Len(mVec) = Len(cRaw) + 1
    /\ mVec[1] = RInt(FirstKnotM(constrained, self_a_min))
    /\ \A k \in 1..Len(cRaw) : mVec[k + 1] = RAdd(cRaw[k], RInt(aVec_eee[k]))

\* C8 as claimed: with a strictly increasing non-negative grid and an engine
\* whose consumption is positive with c + a strictly increasing, the knot
\* states handed to the fit are strictly increasing.
C8_Claimed ==
    pc \in {"cons_last", "cons_sweep"} /\ C8_Given
      => RStrictlyIncreasing(mVec)

\* C8, amended: the same, given in addition that the natural borrowing limit
\* lies below c + a of the first grid point (it does whenever the limit is not
\* positive); the solver neither sorts nor drops a knot.
C8_KnotStatesIncrease ==
    pc \in {"cons_last", "cons_sweep"} =>
      /\ C8_AsComputed
      /\ (C8_Given /\ (Len(mVec) >= 2 => RLt(RInt(self_a_min), mVec[2])))
           => RStrictlyIncreasing(mVec)

C8_Witness ==
    /\ pc = "cons_sweep"
    /\ C8_Given
    /\ Len(mVec) = 3
    /\ self_a_min > 0
    /\ RLt(RInt(self_a_min), mVec[2])
    /\ RStrictlyIncreasing(mVec)

\* --------------------------------------------------- the other claims
\* The policy a sweep must be handed in period p of the solve in progress.
StoredNext(p) ==
    IF run = 1 THEN cFunc_life[p + 1] ELSE cFuncPort_life[p + 1]

PortKeySets ==
    {DOMAIN cFuncPort_life, DOMAIN varsigma_life, DOMAIN mGridPort_life,
     DOMAIN cGridPort_life, DOMAIN varsigmaGrid_life}

\* C4 as claimed: the completed portfolio solve holds a consumption policy
\* and a share policy for every period 0..T-1.
C4_Claimed ==
    pc = "port_done" =>
      /\ DOMAIN cFuncPort_life = 0..(T - 1)
      /\ DOMAIN varsigma_life = 0..(T - 1)

\* C4, amended: the completed portfolio solve holds a consumption policy and
\* a share policy for period T-1 and for the periods T-2 down to 1: its loop
\* stops at period 1, so period 0 has a policy only when T = 1.
C4_PortPeriods ==
    pc = "port_done" =>
      /\ PortKeySets = {{T - 1} \cup 1..(T - 1)}
      /\ \A p \in DOMAIN cFuncPort_life :
           /\ cFuncPort_life[p].run = run
           /\ varsigma_life[p].run = run
      /\ T >= 2 => 0 \notin DOMAIN cFuncPort_life

C4_Witness ==
    /\ pc = "port_done"
    /\ T >= 3
    /\ DOMAIN cFuncPort_life = 1..(T - 1)
    /\ DOMAIN varsigma_life = 1..(T - 1)

C10_Claimed ==
    (call.fn # "none" /\ call.a >= 0 /\ ~call.raised) =>
      RLe(RInt(0), call.ret) /\ RLe(call.ret, RInt(1))

\* ---------------------------------------------- the share solver's cases
\* A call of the share solver has been made with a >= 0 on a share grid that
\* is not empty.
CallAtOrAboveZero ==
    call.fn # "none" /\ call.a >= 0 /\ Len(call.FOC_s) >= 1

\* The two corner tests of the call, on the marginal values it saw.
CornerOne == RLt(RInt(0), call.FOC_s[Len(call.FOC_s)])

CornerZero == ~CornerOne /\ RLt(call.FOC_s[1], RInt(0))

\* The adjacent pairs of the call with a marginal value >= 0 at the lower and
\* <= 0 at the upper share.
CallCrossing ==
    {k \in 1..(Len(call.FOC_s) - 1) :
       RLe(call.FOC_s[k + 1], RInt(0)) /\ RLe(RInt(0), call.FOC_s[k])}

\* C11 as claimed: at a = 0 the share solver chooses the share 0.
C11_Claimed ==
    (call.fn # "none" /\ call.a = 0) => ~call.raised /\ call.ret = RInt(0)

\* C11, amended: at a = 0 the marginal value of the share is the +infinity
\* sentinel at every point of the share grid, and the share solver returns
\* the share 1: the sentinel meets the corner test "positive at share = 1".
C11_ShareAtZeroAssets ==
    (call.fn # "none" /\ call.a = 0) =>
      /\ \A j \in 1..Len(call.FOC_s) : call.FOC_s[j] = PosInf
      /\ Len(call.FOC_s) = Len(self_varsigma_grids)
      /\ ~call.raised
      /\ call.ret = RInt(1)

C11_Witness ==
    /\ call.fn = "varsigma_Tminus1"
    /\ call.a = 0
    /\ Len(call.FOC_s) >= 2
    /\ call.FOC_s[1] = PosInf
    /\ call.ret = RInt(1)

\* C12: for a >= 0, a marginal value that is strictly positive at the last
\* share of the grid makes the solver return exactly 1; when it is not, a
\* marginal value that is strictly negative at the first share makes it return
\* exactly 0.
C12_Corners ==
    CallAtOrAboveZero =>
      /\ CornerOne => ~call.raised /\ call.ret = RInt(1)
      /\ CornerZero => ~call.raised /\ call.ret = RInt(0)

\* The second corner, with a marginal value of exactly 0 at the last share.
C12_Witness ==
    /\ CallAtOrAboveZero
    /\ call.fn = "varsigma_Tminus1"
    /\ call.a > 0
    /\ CornerZero
    /\ call.FOC_s[Len(call.FOC_s)] = RInt(0)
    /\ call.ret = RInt(0)

\* C13: for a >= 0 with neither corner met and a bracketing pair present, the
\* solver takes the first bracketing pair (share_i, share_i+1) and returns
\* share_i + (share_i+1 - share_i) * f_i / (f_i - f_i+1).
C13_FirstPairInterpolated ==
    (CallAtOrAboveZero /\ ~CornerOne /\ ~CornerZero /\ CallCrossing # {}) =>
      LET idx == CHOOSE k \in CallCrossing : \A q \in CallCrossing : k <= q
          s_lo == self_varsigma_grids[idx]
          s_hi == self_varsigma_grids[idx + 1]
          f_lo == call.FOC_s[idx]
          f_hi == call.FOC_s[idx + 1]
      IN /\ ~call.raised
         /\ call.ret = RAdd(s_lo, RMul(RSub(s_hi, s_lo),
                                       RDiv(f_lo, RSub(f_lo, f_hi))))
         /\ (f_lo # RInt(0) \/ f_hi # RInt(0)) =>
              /\ IsFinite(call.ret)
              /\ RLe(s_lo, call.ret)
              /\ RLe(call.ret, s_hi)

\* Two bracketing pairs that give different shares: the first one is used.
C13_Witness ==
    /\ CallAtOrAboveZero
    /\ call.fn = "varsigma_t"
    /\ ~CornerOne
    /\ ~CornerZero
    /\ CallCrossing = {1, 2}
    /\ call.FOC_s = <<RInt(1), RInt(0), RInt(0)>>
    /\ call.ret = [num |-> 1, den |-> 2]

\* C14: for a >= 0 with neither corner met and no bracketing pair (a share
\* grid of one point and not-a-number marginal values included), the solver
\* ends in an error and returns no share.
C14_NoBracketRaises ==
    /\ (CallAtOrAboveZero /\ ~CornerOne /\ ~CornerZero /\ CallCrossing = {})
         => call.raised
    /\ (call.fn # "none" /\ call.a >= 0 /\ Len(call.FOC_s) = 0)
         => call.raised

\* A not-a-number marginal value takes the only bracket away.
C14_Witness ==
    /\ CallAtOrAboveZero
    /\ call.fn = "varsigma_Tminus1"
    /\ Len(call.FOC_s) = 2
    /\ call.FOC_s[1] = RInt(1)
    /\ IsNaN(call.FOC_s[2])
    /\ call.raised

\* ------------------------------------------------- the share policy
\* The portfolio solve in progress, an aborted sweep included.
InPortRun == InPortSolve \/ pc = "port_IndexError"

\* The periods the portfolio solve in progress has stored.
PortStored ==
    IF InPortRun
    THEN {p \in DOMAIN cFuncPort_life : cFuncPort_life[p].run = run}
    ELSE {}

\* C15 as claimed: the pair of the first grid point (asset = 0) is left out of
\* the share policy's fit, which takes the pairs of the other grid points.
C15_Claimed ==
    \A p \in PortStored :
      aVec_eee_big[1] = 0 =>
        /\ Len(varsigma_life[p].x) = Len(aVec_eee_big) - 1
        /\ \A k \in 1..Len(varsigma_life[p].x) :
             /\ varsigma_life[p].x[k] = mGridPort_life[p][k + 2]
             /\ varsigma_life[p].y[k] = varsigmaGrid_life[p][k + 2]

\* C15, amended: in every period the share policy is fitted through the
\* recorded (state, share) pairs of every asset grid point, the first one
\* included also when it is a = 0; the only entry left out is the boundary
\* entry (0, 0) that the solver puts in front of the lists.  The share policy
\* so has one knot per grid point, one knot fewer than the consumption policy.
C15_ShareFitDropsBoundaryEntry ==
    \A p \in PortStored :
      /\ Len(varsigma_life[p].y) = Len(varsigma_life[p].x)
      /\ \A k \in 1..Len(varsigma_life[p].x) :
           /\ varsigma_life[p].x[k] = mGridPort_life[p][k + 1]
           /\ varsigma_life[p].y[k] = varsigmaGrid_life[p][k + 1]
      /\ mGridPort_life[p][1] = RInt(0)
      /\ varsigmaGrid_life[p][1] = RInt(0)
      /\ Len(varsigma_life[p].x) = Len(aVec_eee_big)
      /\ Len(varsigma_life[p].x) = Len(cFuncPort_life[p].x) - 1
      /\ cFuncPort_life[p].x = mGridPort_life[p]

\* A grid that starts at a = 0: the share 1 solved there is the first knot.
C15_Witness ==
    /\ pc = "port_loop"
    /\ t \in PortStored
    /\ aVec_eee_big[1] = 0
    /\ varsigma_life[t].y[1] = RInt(1)
    /\ call.a > 0
    /\ Len(varsigma_life[t].x) = Len(aVec_eee_big)

\* C16 as claimed: the state coordinate of the k-th knot of a period's share
\* policy is the asset grid point a at which the share was solved.
C16_Claimed ==
    \A p \in PortStored :
      \A k \in 1..Len(varsigma_life[p].x) :
        varsigma_life[p].x[k] = RInt(aVec_eee_big[k])

\* C16, amended: the share policy fitted for each period maps cash-on-hand m
\* to share: the state coordinate of its k-th knot is m = c + a at the k-th
\* asset grid point a, c being the implied consumption there before the clip,
\* and the control coordinate is the share the share solver returned at that a.
C16_ShareKnots ==
    /\ (pc \in {"port_last", "port_sweep"} /\ i > 1) =>
         /\ call.a = aVec_eee_big[i - 1]
         /\ ~call.raised
         /\ varsigmaVec_port[i] = call.ret
         /\ mVec_port[i] = RAdd(cRaw[i - 1], RInt(aVec_eee_big[i - 1]))
    /\ (pc = "port_loop" /\ t \in PortStored) =>
         /\ Len(varsigma_life[t].x) = Len(aVec_eee_big)
         /\ Len(cRaw) = Len(aVec_eee_big)
         /\ \A k \in 1..Len(aVec_eee_big) :
              /\ varsigma_life[t].x[k] =
                   RAdd(cRaw[k], RInt(aVec_eee_big[k]))
              /\ varsigma_life[t].y[k] = varsigmaVec_port[k + 1]
    /\ \A p \in PortStored :
         \A k \in 1..Len(varsigma_life[p].x) :
           /\ varsigma_life[p].x[k] = mGridPort_life[p][k + 1]
           /\ varsigma_life[p].y[k] = varsigmaGrid_life[p][k + 1]

\* An interior share stored at a state that differs from the asset grid point.
C16_Witness ==
    /\ pc = "port_loop"
    /\ t \in PortStored
    /\ t < T - 1
    /\ IsFinite(varsigma_life[t].x[2])
    /\ varsigma_life[t].x[2] # RInt(aVec_eee_big[2])
    /\ varsigma_life[t].y[2] = [num |-> 1, den |-> 2]

\* ------------------------------------------------- a failed evaluation
\* A solve has ended in an exception raised at a grid point of period t.
Failed == pc \in {"cons_Error", "port_IndexError"}

\* The dictionary of consumption policies of the solve in progress.
RunDict == IF run = 1 THEN cFunc_life ELSE cFuncPort_life

\* The asset grid of the solve in progress.
RunGrid == IF run = 1 THEN aVec_eee ELSE aVec_eee_big

\* The periods for which the solve in progress has stored a policy.
RunStored ==
    IF run \in {1, 2, 3}
    THEN {p \in DOMAIN RunDict : RunDict[p].run = run}
    ELSE {}

\* What a failed solve leaves behind.
FailedLeaves ==
    Failed =>
      /\ RunStored = (t + 1)..(T - 1)
      /\ Len(solved) = T - 1 - t
      /\ t < T - 1 => /\ cFunc = RunDict[t + 1]
                      /\ DOMAIN RunDict = (t + 1)..(T - 1)
      /\ t = T - 1 => cFunc.run # run
      /\ (run > 1 /\ t < T - 1) =>
           /\ PortKeySets = {(t + 1)..(T - 1)}
           /\ varsigmaFunc = varsigma_life[t + 1]
           /\ \A p \in RunStored : varsigma_life[p].run = run
      /\ (run > 1 /\ t = T - 1) => varsigmaFunc.run # run

\* No stored policy was fitted from a part of a period's knot list.
NoPartialFit ==
    (InConsSolve \/ InPortRun \/ Failed) =>
      \A p \in RunStored :
        /\ Len(RunDict[p].x) = Len(RunGrid) + 1
        /\ run > 1 => Len(varsigma_life[p].x) = Len(RunGrid)

\* The step on which an evaluation fails stores nothing and fits nothing.
FailingStepStoresNothing ==
    (Failed' /\ ~Failed) =>
      UNCHANGED <<cFunc, varsigmaFunc, cFunc_life, cFuncPort_life,
                  varsigma_life, mGridPort_life, cGridPort_life,
                  varsigmaGrid_life, solved>>

\* C17: when the evaluation at a grid point of period t fails, the solve stops
\* there: it holds policies for the periods t+1..T-1 only, they are the ones
\* it held before the failing step, no policy is fitted from the partial knot
\* list, and nothing is stored for period t or an earlier period.
C17_FailureStopsSolve ==
    /\ [](FailedLeaves /\ NoPartialFit)
    /\ [][FailingStepStoresNothing]_vars
    /\ [][Failed => UNCHANGED vars]_vars

\* The second portfolio solve failing below period T-1, and the consumption
\* solve before it having completed.
C17_Witness ==
    /\ pc = "port_IndexError"
    /\ run = 3
    /\ t < T - 1
    /\ i > 1
    /\ RunStored = {T - 1}
    /\ DOMAIN cFunc_life = 0..(T - 1)

\* ------------------------------------- a marginal value that is not positive
\* C18: in the portfolio solves no entry is appended to the knot lists of a
\* period at a grid point where the expected marginal value of assets is zero
\* or negative: the evaluation raises instead.
C18_Claimed ==
    InPortRun =>
      /\ Len(cVec_port) = Len(vaRaw) + 1
      /\ \A k \in 1..Len(vaRaw) :
           ~IsNaN(vaRaw[k]) => vaRaw[k].num > 0

\* ------------------------------------------------ stored results stay
\* A step leaves every result that the solve in progress has stored as it is.
StoredStaysStored ==
    run' = run =>
      /\ \A p \in RunStored :
           /\ p \in DOMAIN RunDict'
           /\ RunDict'[p] = RunDict[p]
      /\ run > 1 =>
           \A p \in RunStored :
             /\ p \in DOMAIN varsigma_life' /\ p \in DOMAIN mGridPort_life'
             /\ p \in DOMAIN cGridPort_life' /\ p \in DOMAIN varsigmaGrid_life'
             /\ varsigma_life'[p] = varsigma_life[p]
             /\ mGridPort_life'[p] = mGridPort_life[p]
             /\ cGridPort_life'[p] = cGridPort_life[p]
             /\ varsigmaGrid_life'[p] = varsigmaGrid_life[p]

\* A step stores nothing, or it is a fit and stores one period that the solve
\* had not stored yet.
WrittenOnce ==
    run' = run =>
      \/ RunStored' = RunStored /\ solved' = solved
      \/ /\ Len(solved') = Len(solved) + 1
         /\ \E p \in RunStored' \ RunStored : RunStored' = RunStored \cup {p}

\* While a period's lists are appended to, no stored list is the list object
\* being appended to.
StoredListsAreOtherObjects ==
    pc \in {"port_last", "port_sweep"} =>
      \A p \in DOMAIN grid_ids : grid_ids[p] # list_id

\* C19: once a period's result is stored, no later step of the same solve
\* changes it: every period key is written once, by one fit, and the lists
\* stored for a period are never the list object a later step appends to.
C19_StoredResultsStay ==
    /\ [][StoredStaysStored /\ WrittenOnce]_vars
    /\ [](StoredListsAreOtherObjects
          /\ ((InConsSolve \/ InPortRun) =>
                Cardinality(RunStored) = Len(solved)))

\* A later period step of the second portfolio solve has appended to its lists
\* while the lists of the period before are in the dictionaries.
C19_Witness ==
    /\ pc = "port_sweep"
    /\ run = 3
    /\ i > 1
    /\ RunStored = (t + 1)..(T - 1)
    /\ Len(cVec_port) = i
    /\ Len(cGridPort_life[t + 1]) = Len(aVec_eee_big) + 1
    /\ cVec_port # cGridPort_life[t + 1]

\* ------------------------------------------ grids and configuration
\* The grids and the engine's configuration.
Configuration ==
    <<self_varsigma_grids, share_grid_size, aVec_eee_big, aVec_eee, T,
      theta_X_min, constrained>>

\* A step of a solve: a call of the engine at a grid point, or any other step
\* of the period loops.
SolveStep == pc \in {"port", "port_again"} \/ InPortSolve

\* C20: the share grid, the asset grids and the engine's configuration are
\* unchanged by every call of the share solver and of implied consumption and
\* by every period step: the array of marginal values a call fills is another
\* array than the share grid, which stays np.linspace(0, 1, share_grid_size).
C20_GridsUnchanged ==
    /\ [][SolveStep => UNCHANGED Configuration]_vars
    /\ [](self_varsigma_grids = varsigma_grids(share_grid_size))

\* A call has filled its array with values that are not the grid's shares.
C20_Witness ==
    /\ pc \in {"port_last", "port_sweep"}
    /\ i > 1
    /\ call.fn \in {"varsigma_Tminus1", "varsigma_t"}
    /\ Len(call.FOC_s) >= 2
    /\ call.FOC_s # self_varsigma_grids
    /\ call.FOC_s # varsigma_grids(share_grid_size)

\* ------------------------------------------------ the same solve twice
\* Two dictionaries of policies with the same keys and, under every key, the
\* same knot sequence.
SamePolicies(d, e) ==
    /\ DOMAIN d = DOMAIN e
    /\ \A p \in DOMAIN d : d[p].x = e[p].x /\ d[p].y = e[p].y

\* The engine's expectations are functions of their arguments: one profile of
\* the marginal value of share and one value of Va.
EngineIsFunction == Cardinality(PortProfiles) = 1 /\ Cardinality(vaOut) = 1

\* The second portfolio solve runs on the configuration of the first.
SameConfiguration ==
    /\ run = 3
    /\ InPortRun
    /\ aVec_eee_big = firstPort.aVec_eee_big
    /\ EngineIsFunction

\* C21: solving the same configuration twice yields identical solutions: the
\* second solve stores, period by period, the knot sequences the first one
\* stored, ends with the same period keys, fails nowhere the first did not,
\* and is handed no policy that another solve left behind.
C21_SameSolveTwice ==
    SameConfiguration =>
      /\ pc # "port_IndexError"
      /\ \A p \in PortStored :
           /\ p \in DOMAIN firstPort.cFuncPort_life
           /\ cFuncPort_life[p].x = firstPort.cFuncPort_life[p].x
           /\ cFuncPort_life[p].y = firstPort.cFuncPort_life[p].y
           /\ varsigma_life[p].x = firstPort.varsigma_life[p].x
           /\ varsigma_life[p].y = firstPort.varsigma_life[p].y
           /\ mGridPort_life[p] = firstPort.mGridPort_life[p]
           /\ cGridPort_life[p] = firstPort.cGridPort_life[p]
           /\ varsigmaGrid_life[p] = firstPort.varsigmaGrid_life[p]
      /\ pc = "port_done" =>
           /\ SamePolicies(cFuncPort_life, firstPort.cFuncPort_life)
           /\ SamePolicies(varsigma_life, firstPort.varsigma_life)
           /\ mGridPort_life = firstPort.mGridPort_life
           /\ cGridPort_life = firstPort.cGridPort_life
           /\ varsigmaGrid_life = firstPort.varsigmaGrid_life
      /\ (pc \in {"port_last", "port_sweep"} /\ i > 1) =>
           c_next = IF t = T - 1 THEN NoPolicy ELSE cFuncPort_life[t + 1]

\* The second solve has ended on the first one's grid, with a policy for more
\* than one period and finite knots, after Figure 20 had bound cFunc to a
\* policy of the first solve.
C21_Witness ==
    /\ SameConfiguration
    /\ pc = "port_done"
    /\ T >= 3
    /\ DOMAIN cFuncPort_life = 1..(T - 1)
    /\ IsFinite(cFuncPort_life[1].y[2])
    /\ cFuncPort_life[1].y[2] # RInt(0)
    /\ cFuncPort_life[1].run = 3
    /\ firstPort.cFuncPort_life[1].run = 2

\* ------------------------------------------------- read after written
\* The dictionaries of the portfolio solve are complete and can be looked up.
AfterPortSolve == pc \in {"port_done", "fig20", "fig20_KeyError", "port_again"}

\* C24: for a horizon T >= 9 no period's policy is read before it has been
\* written: the policy handed to a sweep of either backward loop is the one
\* stored for t+1, Figure 19 finds the keys T-1 down to T-9 of the consumption
\* solution, and the lookups of period 1 in the five portfolio dictionaries
\* find their key.
C24_ReadAfterWritten ==
    T >= 9 =>
      /\ pc \notin {"fig19_KeyError", "fig20_KeyError"}
      /\ pc \in {"cons_sweep", "port_sweep"} =>
           /\ (t + 1) \in DOMAIN RunDict
           /\ cFunc = RunDict[t + 1]
           /\ RunDict[t + 1].run = run
      /\ pc = "fig19" =>
           /\ (T - 9)..(T - 1) \subseteq DOMAIN cFunc_life
           /\ t = T - 9
           /\ cFunc = cFunc_life[T - 9]
      /\ AfterPortSolve => \A D \in PortKeySets : 1 \in D
      /\ pc = "fig20" => cFunc = cFuncPort_life[1]

\* The shortest horizon the claim covers: Figure 19 has read period 0 and the
\* second portfolio solve is complete.
C24_Witness ==
    /\ T = 9
    /\ pc = "port_done"
    /\ run = 3
    /\ DOMAIN cFunc_life = 0..8
    /\ DOMAIN cFuncPort_life = 1..8

\* ------------------------------------------- the first-order condition
\* Equality of two floats: a not-a-number equals nothing.
FloatEq(x, y) == ~IsNaN(x) /\ ~IsNaN(y) /\ x = y

\* self.u.prime(c) = c ** (-rho), the marginal utility of a consumption c
\* given in hundredths; no value for a c that is not positive.
u_prime(c) ==
    IF IsNaN(c) \/ c.num <= 0 THEN NaN
    ELSE IF c.den = 0 THEN RInt(0)
    ELSE LET units == Norm(c.num, 100 * c.den)
         IN Norm(IntPow(units.den, rho_port), IntPow(units.num, rho_port))

C23_SentinelOnlyAtZero ==
    call.fn # "none" =>
      /\ Len(call.FOC_s) = share_grid_size
      /\ \A j \in 1..Len(call.FOC_s) :
           /\ call.FOC_s[j] = PosInf <=> call.a = 0
           /\ call.a # 0 => call.FOC_s[j] \in fOut

\* A call below zero assets whose marginal values are the expectation's.
C23_Witness ==
    /\ call.fn = "varsigma_t"
    /\ call.a < 0
    /\ Len(call.FOC_s) >= 2
    /\ call.FOC_s[1] = RInt(1)
    /\ call.FOC_s[2] = RInt(-1)

\* ----------------------------------- the clip on a grid at or above zero
\* The grid of Figure 18 has no point below zero.
FineGridNonNegative == \A k \in 1..Len(aVec_fine) : aVec_fine[k] >= 0

\* The knots a loop has appended to the lists m and c are the engine's values
\* and lie the grid point a away from them: c is the value returned at the
\* grid point and m - c = a.
GridKnotsUnclipped(m, c) ==
    /\ Len(m) = Len(c)
    /\ \A k \in 1..(Len(c) - 1) :
         /\ c[k + 1] = cRaw[k]
         /\ RAdd(m[k + 1], RNeg(c[k + 1])) = RInt(aVec_fine[k])

\* C25: on a grid of asset points a >= 0 the clip min(c, c + a) leaves every
\* implied consumption c as it is, so in both constraint modes every knot
\* built from a grid point has m - c = a, and the constrained and the
\* unconstrained knot sequences built from the grid differ in nothing but the
\* state of the boundary knot put in front.
C25_ClipIdleAtOrAboveZero ==
    FineGridNonNegative =>
      /\ pc \in {"fig18_const", "fig18_uconst", "fig18_done"} =>
           GridKnotsUnclipped(mVec_const, cVec_const)
      /\ pc \in {"fig18_uconst", "fig18_done"} =>
           GridKnotsUnclipped(mVec_uconst, cVec_uconst)
      /\ pc = "fig18_done" =>
           /\ cVec_const = cVec_uconst
           /\ Len(mVec_const) = Len(aVec_fine) + 1
           /\ Len(mVec_uconst) = Len(aVec_fine) + 1
           /\ \A k \in 2..Len(mVec_const) : mVec_const[k] = mVec_uconst[k]
           /\ mVec_uconst[1] = RInt(self_a_min)
           /\ mVec_const[1] = RInt(IF self_a_min < 0 THEN 0 ELSE self_a_min)

\* Both sequences are built on a grid that starts at zero assets, and their
\* boundary knots differ.
C25_Witness ==
    /\ pc = "fig18_done"
    /\ Len(aVec_fine) >= 2
    /\ aVec_fine[1] = 0
    /\ self_a_min < 0
    /\ mVec_const[1] # mVec_uconst[1]
    /\ cVec_const[2] = cVec_uconst[2]

\* ------------------------------------------- a bracket always exists
\* Every marginal value the call saw is a finite number.
CallAllFinite == \A j \in 1..Len(call.FOC_s) : IsFinite(call.FOC_s[j])

\* C26: on a share grid of at least two points and with finite marginal
\* values, when neither corner applies (the value at share = 1 is <= 0 and the
\* value at share = 0 is >= 0) some adjacent pair has a value >= 0 followed by
\* a value <= 0, and the search for the first bracketing pair does not fail.
C26_BracketExists ==
    (/\ CallAtOrAboveZero
     /\ Len(call.FOC_s) >= 2
     /\ CallAllFinite
     /\ RLe(call.FOC_s[Len(call.FOC_s)], RInt(0))
     /\ RLe(RInt(0), call.FOC_s[1]))
      => CallCrossing # {} /\ ~call.raised

\* Neither corner applies and the only pair with a value >= 0 followed by a
\* value <= 0 has no strict change of sign.
C26_Witness ==
    /\ call.fn = "varsigma_t"
    /\ call.a > 0
    /\ call.FOC_s = <<RInt(0), RInt(0), RInt(-1)>>
    /\ CallCrossing = {1, 2}
    /\ ~call.raised

\* ------------------------------------------- the order of the corners
\* C27: the corner tests are ordered: for a >= 0, a profile whose marginal
\* value is strictly positive at share = 1 and strictly negative at share = 0
\* gives exactly 1, and the corner share 0 is returned for a strictly negative
\* value at share = 0 only when the value at share = 1 is not strictly
\* positive.
C27_CornerOrder ==
    CallAtOrAboveZero =>
      /\ (RLt(RInt(0), call.FOC_s[Len(call.FOC_s)])
          /\ RLt(call.FOC_s[1], RInt(0)))
           => ~call.raised /\ call.ret = RInt(1)
      /\ (~call.raised /\ call.ret = RInt(0) /\ RLt(call.FOC_s[1], RInt(0)))
           => ~RLt(RInt(0), call.FOC_s[Len(call.FOC_s)])

\* A profile that rises with the share: negative at share = 0, positive at
\* share = 1.
C27_Witness ==
    /\ call.fn = "varsigma_t"
    /\ call.a > 0
    /\ Len(call.FOC_s) >= 2
    /\ call.FOC_s[1] = RInt(-1)
    /\ call.FOC_s[Len(call.FOC_s)] = RInt(1)
    /\ call.ret = RInt(1)

\* --------------------------------------------- the two share solvers
\* What the other of the two share solvers makes of the latest call's a and
\* marginal values.
OtherSolver ==
    IF call.fn = "varsigma_Tminus1"
    THEN varsigma_t(call.a, cFunc, call.FOC_s)
    ELSE varsigma_Tminus1(call.a, call.FOC_s)

\* C28: varsigma_Tminus1 and varsigma_t apply the same selection rule: on the
\* same a and the same marginal values over the same share grid they both
\* fail, or both return, and then the same share (not-a-number when one does).
C28_SameSelectionRule ==
    call.fn # "none" =>
      /\ OtherSolver.raised = call.raised
      /\ OtherSolver.ret = call.ret

\* An interior share found by the terminal solver.
C28_Witness ==
    /\ call.fn = "varsigma_Tminus1"
    /\ call.a > 0
    /\ call.FOC_s = <<RInt(1), RInt(-1)>>
    /\ call.ret = [num |-> 1, den |-> 2]
    /\ OtherSolver.ret = [num |-> 1, den |-> 2]

\* -------------------------------- the constrained lists stay as built
\* The unconstrained lists are being built or have been built.
BuildingUnconstrained == pc \in {"fig18_uconst", "fig18_done"}

\* C29: building the unconstrained knot lists after the constrained ones
\* leaves mVec_const and cVec_const as the first loop left them, for every
\* value of the natural borrowing limit, and the unconstrained lists start
\* with the knot (self_a_min, 0).
C29_ConstrainedListsKept ==
    /\ [][BuildingUnconstrained' => UNCHANGED <<mVec_const, cVec_const>>]_vars
    /\ [](BuildingUnconstrained =>
            /\ mVec_uconst[1] = RInt(self_a_min)
            /\ cVec_uconst[1] = RInt(0)
            /\ Len(mVec_const) = Len(aVec_fine) + 1
            /\ Len(cVec_const) = Len(aVec_fine) + 1)

\* Both pairs of lists are complete under a natural borrowing limit below
\* zero, the case in which the second block's rebinding statement could act.
C29_Witness ==
    /\ pc = "fig18_done"
    /\ self_a_min < 0
    /\ Len(aVec_fine) >= 2
    /\ mVec_const[1] = RInt(0)
    /\ mVec_uconst[1] = RInt(self_a_min)
    /\ Len(mVec_uconst) = Len(mVec_const)

====
